---- MODULE Spec2Model ----
(***************************************************************************)
(* A model of signac-flow's scoped helpers (flow/util/misc.py) and of the  *)
(* contributor synchronisation script (.sync-contributors.py).             *)
(*                                                                         *)
(* Python strings are sequences of one-character strings, so that          *)
(* iterating a string, splitting, joining and stripping are computed       *)
(* character by character as the interpreter computes them.                *)
(* None / an absent mapping key is the option value None; a present value  *)
(* v is Some(v).                                                           *)
(*                                                                         *)
(* The file system is static, holds the directories Dirs and no symbolic   *)
(* links. The body of a scope changes none of the state the scopes change, *)
(* except by entering further scopes.                                      *)
(*                                                                         *)
(* A context manager is two actions: the generator up to its yield (the    *)
(* scope is entered, a frame with its local variables is pushed) and from  *)
(* its yield on (the scope is left, the frame is popped). The variables    *)
(* last and log are history: no action reads them to decide what the code  *)
(* does.                                                                   *)
(***************************************************************************)
EXTENDS Naturals, Sequences, FiniteSets, TLC

VARIABLES
    cwd,        \* the process working directory (os.getcwd())
    environ,    \* os.environ.get('PYTHONPATH'): None when the key is absent
    handlers,   \* logger name -> that logger's list of handlers
    stack,      \* task -> the scopes it has open, innermost last
    exc,        \* task -> an exception is propagating in it
    last,       \* history: the step just taken
    log,        \* history: the enter/exit events of the concurrent tasks
    citation_cff,       \* sync: the 'authors' entries of CITATION.cff
    contributors_yaml,  \* sync: the 'contributors' entries of contributors.yaml
    zenodo,     \* sync: the record sync built, None before it ran
    zenodo_file,  \* sync: the content of .zenodo.json on disk
    stdout      \* sync: what was printed

vars == <<cwd, environ, handlers, stack, exc, last, log,
          citation_cff, contributors_yaml, zenodo, zenodo_file, stdout>>
procvars == <<cwd, environ, handlers, stack, exc, last>>
syncvars == <<citation_cff, contributors_yaml, zenodo, zenodo_file, stdout>>

\* ------------------------------------------------------------ bounds

MaxLen == 3         \* longest initial PYTHONPATH value, in characters
MaxPathLen == 2     \* longest path / root argument, in characters
MaxDepth == 2       \* deepest nesting of scopes in one call stack
MaxHandlers == 2    \* most handlers a logger holds before a scope
MaxAuthors == 2     \* longest author list
MaxContributors == 2  \* longest contributor list

\* ------------------------------------------------------------ values

None == [some |-> FALSE, val |-> <<>>]
Some(v) == [some |-> TRUE, val |-> v]

\* The truth value Python gives an optional string: None and '' are false.
Truthy(o) == o.some /\ Len(o.val) > 0

Chars == {"/", ":", "a", "."}
StrUpTo(n) == UNION {[1..k -> Chars] : k \in 0..n}

\* ------------------------------------------------------------ str / os.path

\* The first index of character c in s, or 0.
RECURSIVE find(_, _, _)
find(s, c, i) ==
    IF i > Len(s) THEN 0
    ELSE IF s[i] = c THEN i
    ELSE find(s, c, i + 1)

\* str.split(sep) for a one-character separator: '' gives [''].
RECURSIVE split(_, _)
split(s, sep) ==
    LET i == find(s, sep, 1) IN
    IF i = 0 THEN <<s>>
    ELSE <<SubSeq(s, 1, i - 1)>> \o split(SubSeq(s, i + 1, Len(s)), sep)

\* sep.join(parts)
RECURSIVE join(_, _)
join(sep, parts) ==
    IF Len(parts) = 0 THEN <<>>
    ELSE IF Len(parts) = 1 THEN parts[1]
    ELSE parts[1] \o <<sep>> \o join(sep, Tail(parts))

\* os.path.isabs
isabs(s) == Len(s) > 0 /\ s[1] = "/"

\* The components of a path left after '', '.' and '..' are resolved.
RECURSIVE resolve(_, _)
resolve(comps, acc) ==
    IF Len(comps) = 0 THEN acc
    ELSE LET name == Head(comps) IN
         IF name = <<>> \/ name = <<".">> THEN resolve(Tail(comps), acc)
         ELSE IF name = <<".", ".">>
              THEN resolve(Tail(comps),
                           IF Len(acc) = 0 THEN acc ELSE SubSeq(acc, 1, Len(acc) - 1))
              ELSE resolve(Tail(comps), Append(acc, name))

\* os.path.realpath(p) with working directory d, on a file system without
\* symbolic links: the absolute, normalised path.
realpath(d, p) ==
    LET full == IF isabs(p) THEN p ELSE d \o <<"/">> \o p
    IN  <<"/">> \o join("/", resolve(split(full, "/"), <<>>))

\* The directories that exist.
Dirs == { <<"/">>, <<"/", "a">>, <<"/", ":">>, <<"/", "a", "/", "a">> }

\* Looking up the components of a path one by one, as the kernel does: the
\* directory reached, or None when a component does not exist.
RECURSIVE walk(_, _)
walk(comps, at) ==
    IF Len(comps) = 0 THEN Some(at)
    ELSE LET nxt == realpath(at, Head(comps)) IN
         IF nxt \in Dirs THEN walk(Tail(comps), nxt) ELSE None

\* os.chdir(root) from working directory d: the new working directory, or
\* None when the call raises OSError. chdir('') raises.
chdir(d, root) ==
    IF Len(root) = 0 THEN None
    ELSE walk(split(root, "/"), IF isabs(root) THEN <<"/">> ELSE d)

\* ------------------------------------------------------------ scopes

Tasks == {"t1", "t2"}
Loggers == {"root", "app"}

\* What the scopes change, as one value. Each frame keeps, beside the
\* generator's local variables, the snapshot taken before the scope was
\* entered (entry) and how many scopes were open then, plus one (depth).
Snapshot == [cwd |-> cwd, environ |-> environ, handlers |-> handlers]

NoFrame == [kind |-> "none", branch |-> "none"]

top(t) == stack[t][Len(stack[t])]
push(t, f) == [stack EXCEPT ![t] = Append(@, f)]
pop(t) == [stack EXCEPT ![t] = SubSeq(@, 1, Len(@) - 1)]

\* The step just taken: its task, what it did, the frame it pushed or
\* popped, the shared state before it, and whether an exception was
\* propagating in the task before it.
Step(t, op, f) ==
    [task |-> t, op |-> op, frame |-> f, pre |-> Snapshot, raising |-> exc[t]]

\* ---- add_path_to_environment_pythonpath

\* The scan of lines 133-134: the loop variable ranges over the characters
\* of the string pythonpath.
already_present(d, pythonpath, path) ==
    \E i \in 1..Len(pythonpath) :
        LET path_ == <<pythonpath[i]>> IN
        isabs(path_) /\ realpath(d, path_) = path

\* Line 139-140: the value the variable takes while the body runs.
prepended(path, pythonpath) == join(":", <<path>> \o split(pythonpath, ":"))

\* The generator up to its yield, called with `arg` under the name `kind`.
path_scope_enter(t, kind, arg) ==
    LET path == realpath(cwd, arg)
        pythonpath == environ
        branch == IF Truthy(pythonpath)
                  THEN IF already_present(cwd, pythonpath.val, path)
                       THEN "present" ELSE "prepended"
                  ELSE "set"
        f == [kind |-> kind, branch |-> branch, arg |-> arg, path |-> path,
              pythonpath |-> pythonpath, entry |-> Snapshot,
              depth |-> Len(stack[t]) + 1]
    IN  /\ environ' = CASE branch = "present" -> environ
                        [] branch = "prepended" -> Some(prepended(path, pythonpath.val))
                        [] branch = "set" -> Some(path)
        /\ stack' = push(t, f)
        /\ last' = Step(t, "enter", f)
        /\ UNCHANGED <<cwd, handlers, exc>>

\* The generator from its yield on: the finally clauses of lines 142-143
\* and 150-151; nothing follows the yield of line 135. `del` of an absent
\* key raises KeyError.
path_scope_exit(t) ==
    LET f == top(t) IN
    /\ f.kind \in {"add_path", "add_cwd"}
    /\ environ' = CASE f.branch = "present" -> environ
                    [] f.branch = "prepended" -> f.pythonpath
                    [] f.branch = "set" -> None
    /\ exc' = IF f.branch = "set" /\ ~environ.some THEN [exc EXCEPT ![t] = TRUE] ELSE exc
    /\ stack' = pop(t)
    /\ last' = Step(t, "exit", f)
    /\ UNCHANGED <<cwd, handlers>>

add_path_to_environment_pythonpath(t, path) == path_scope_enter(t, "add_path", path)

add_cwd_to_environment_pythonpath(t) == path_scope_enter(t, "add_cwd", cwd)

\* ---- switch_to_directory

\* switch_to_directory with lines 166 and 168 exchanged: the directory is
\* saved after the change.
switch_to_directory_saves_late(t, root) ==
    /\ root.some => chdir(cwd, root.val).some
    /\ LET new == IF root.some THEN chdir(cwd, root.val).val ELSE cwd
           f == [kind |-> "switch",
                 branch |-> IF root.some THEN "switched" ELSE "noop",
                 arg |-> root, cwd |-> new, entry |-> Snapshot,
              depth |-> Len(stack[t]) + 1]
       IN  /\ cwd' = new
           /\ stack' = push(t, f)
           /\ last' = Step(t, "enter", f)
    /\ UNCHANGED <<environ, handlers, exc>>

\* root is None, or chdir(root) succeeded: the body is reached.
switch_to_directory(t, root) ==
    /\ root.some => chdir(cwd, root.val).some
    /\ LET f == [kind |-> "switch",
                 branch |-> IF root.some THEN "switched" ELSE "noop",
                 arg |-> root, cwd |-> cwd, entry |-> Snapshot,
              depth |-> Len(stack[t]) + 1]
       IN  /\ cwd' = IF root.some THEN chdir(cwd, root.val).val ELSE cwd
           /\ stack' = push(t, f)
           /\ last' = Step(t, "enter", f)
    /\ UNCHANGED <<environ, handlers, exc>>

\* chdir(root) raised inside the try: the finally clause changes back to
\* the saved directory and the error propagates; the body never runs.
switch_to_directory_fails(t, root) ==
    /\ root.some /\ ~chdir(cwd, root.val).some
    /\ LET f == [kind |-> "switch", branch |-> "failed",
                 arg |-> root, cwd |-> cwd, entry |-> Snapshot,
              depth |-> Len(stack[t]) + 1]
       IN  /\ cwd' = chdir(cwd, f.cwd).val
           /\ last' = Step(t, "enter_failed", f)
    /\ exc' = [exc EXCEPT ![t] = TRUE]
    /\ UNCHANGED <<environ, handlers, stack>>

\* switch_exit without the chdir back of line 171.
switch_exit_no_restore(t) ==
    LET f == top(t) IN
    /\ f.kind = "switch"
    /\ cwd' = cwd
    /\ stack' = pop(t)
    /\ last' = Step(t, "exit", f)
    /\ UNCHANGED <<environ, handlers, exc>>

\* The finally clause of lines 170-171; nothing follows the yield of 164.
switch_exit(t) ==
    LET f == top(t) IN
    /\ f.kind = "switch"
    /\ cwd' = IF f.branch = "switched" THEN chdir(cwd, f.cwd).val ELSE cwd
    /\ stack' = pop(t)
    /\ last' = Step(t, "exit", f)
    /\ UNCHANGED <<environ, handlers, exc>>

\* ---- redirect_log

RunLog == <<"r", "u", "n", ".", "l", "o", "g">>
OutLog == <<"o", "u", "t">>
Filenames == {RunLog, OutLog}

\* A job is its workspace directory; the second one does not exist.
Jobs == { <<"/", "a">>, <<"/", "b">> }

\* job.fn(filename): os.path.join(job.workspace(), filename)
fn(job, filename) == IF isabs(filename) THEN filename ELSE job \o <<"/">> \o filename

\* os.path.dirname of an absolute normalised path
dirname(p) ==
    LET parts == split(p, "/")
    IN  realpath(<<"/">>, join("/", SubSeq(parts, 1, Len(parts) - 1)))

\* The file the scope's handler is opened on (line 118).
handler_filename(job, filename) == fn(job, RunLog)

DefaultFormatter == "%(asctime)s %(name)-12s %(levelname)-8s %(message)s"
Formatters == {"custom"}

\* Handlers are objects: two are the same one when their ids are equal.
ids_of(hs) == {hs[i].id : i \in 1..Len(hs)}

\* The handlers the open redirect_log scopes hold.
held(t) ==
    {stack[t][i].filehandler :
        i \in {j \in 1..Len(stack[t]) : stack[t][j].kind = "redirect_log"}}

UsedIds ==
    UNION {ids_of(handlers[l]) : l \in Loggers}
    \cup UNION {{h.id : h \in held(t)} : t \in Tasks}

\* The identity of a newly constructed object: one no live object has.
fresh_id == CHOOSE n \in 1..Cardinality(UsedIds) + 1 :
                /\ n \notin UsedIds
                /\ \A m \in 1..n - 1 : m \in UsedIds

\* logging.Logger.addHandler: appends unless the handler is already there.
addHandler(hs, h) ==
    IF \E i \in 1..Len(hs) : hs[i] = h THEN hs ELSE Append(hs, h)

\* A removal that clears the logger's handlers.
removeHandler_all(hs, h) == <<>>

\* logging.Logger.removeHandler: list.remove, when the handler is there.
RECURSIVE removeHandler(_, _)
removeHandler(hs, h) ==
    IF Len(hs) = 0 THEN hs
    ELSE IF Head(hs) = h THEN Tail(hs)
    ELSE <<Head(hs)>> \o removeHandler(Tail(hs), h)

\* The handler the scope constructs (lines 112-119).
new_filehandler(job, filename, formatter) ==
    [id |-> fresh_id,
     baseFilename |-> realpath(cwd, handler_filename(job, filename)),
     formatter |-> IF formatter.some THEN formatter.val ELSE DefaultFormatter]

\* The generator up to its yield. logging.FileHandler opens the file, which
\* needs its directory.
redirect_log(t, job, filename, formatter, logger) ==
    LET lg == IF logger.some THEN logger.val ELSE "root"
        filehandler == new_filehandler(job, filename, formatter)
        f == [kind |-> "redirect_log", branch |-> "attached",
              job |-> job, filename |-> filename, logger |-> lg,
              filehandler |-> filehandler, entry |-> Snapshot,
              depth |-> Len(stack[t]) + 1]
    IN  /\ dirname(filehandler.baseFilename) \in Dirs
        /\ handlers' = [handlers EXCEPT ![lg] = addHandler(@, filehandler)]
        /\ stack' = push(t, f)
        /\ last' = Step(t, "enter", f)
        /\ UNCHANGED <<cwd, environ, exc>>

\* The file cannot be opened: line 118 raises before anything is attached.
redirect_log_fails(t, job, filename, formatter, logger) ==
    LET filehandler == new_filehandler(job, filename, formatter)
        f == [kind |-> "redirect_log", branch |-> "failed",
              job |-> job, filename |-> filename,
              logger |-> IF logger.some THEN logger.val ELSE "root",
              filehandler |-> filehandler, entry |-> Snapshot,
              depth |-> Len(stack[t]) + 1]
    IN  /\ dirname(filehandler.baseFilename) \notin Dirs
        /\ exc' = [exc EXCEPT ![t] = TRUE]
        /\ last' = Step(t, "enter_failed", f)
        /\ UNCHANGED <<cwd, environ, handlers, stack>>

\* The finally clause of lines 123-124; an exception of the body goes on
\* propagating.
redirect_log_exit(t) ==
    LET f == top(t) IN
    /\ f.kind = "redirect_log"
    /\ handlers' = [handlers EXCEPT ![f.logger] = removeHandler(@, f.filehandler)]
    /\ stack' = pop(t)
    /\ last' = Step(t, "exit", f)
    /\ UNCHANGED <<cwd, environ, exc>>

\* ---- the code around the scopes

\* The body of the innermost open scope raises.
body_raises(t) ==
    /\ Len(stack[t]) > 0 /\ ~exc[t]
    /\ exc' = [exc EXCEPT ![t] = TRUE]
    /\ last' = Step(t, "raise", top(t))
    /\ UNCHANGED <<cwd, environ, handlers, stack>>

\* The code around the scope the exception has left catches it.
caught(t) ==
    /\ exc[t]
    /\ exc' = [exc EXCEPT ![t] = FALSE]
    /\ last' = Step(t, "catch", NoFrame)
    /\ UNCHANGED <<cwd, environ, handlers, stack>>

\* A scope is entered by running code: none is while an exception propagates.
can_enter(t, depth) == ~exc[t] /\ Len(stack[t]) < depth
can_exit(t) == Len(stack[t]) > 0

\* ------------------------------------------------------------ sync

OrcidPrefix == <<"h","t","t","p","s",":","/","/","o","r","c","i","d",".","o","r","g","/">>

\* str.lstrip(chars): the leading characters that occur in chars are removed.
RECURSIVE lstrip(_, _)
lstrip(s, chars) ==
    IF Len(s) > 0 /\ (\E i \in 1..Len(chars) : chars[i] = s[1])
    THEN lstrip(Tail(s), chars)
    ELSE s

\* Contributor.from_citation_author: an entry of a citation file, a mapping
\* with the keys family-names, given-names, affiliation and maybe orcid.
from_citation_author(citation) ==
    [last_names |-> citation["family-names"],
     first_names |-> citation["given-names"],
     affiliation |-> citation["affiliation"],
     orcid |-> IF "orcid" \in DOMAIN citation THEN Some(citation["orcid"]) ELSE None]

\* An __eq__ that leaves the optional field out.
contributor_eq_without_orcid(a, b) ==
    <<a.last_names, a.first_names, a.affiliation>>
        = <<b.last_names, b.first_names, b.affiliation>>

\* The __eq__ the dataclass decorator generates: the tuples of all fields.
contributor_eq(a, b) ==
    <<a.last_names, a.first_names, a.affiliation, a.orcid>>
        = <<b.last_names, b.first_names, b.affiliation, b.orcid>>

\* The orcid as_zenodo_creator emits (line 37).
zenodo_orcid(orcid) == lstrip(orcid, OrcidPrefix)

\* Contributor.as_zenodo_creator
as_zenodo_creator(self) ==
    LET ret == [name |-> self.first_names \o <<" ">> \o self.last_names,
                affiliation |-> self.affiliation]
    IN  IF Truthy(self.orcid)
        THEN [name |-> ret.name, affiliation |-> ret.affiliation,
              orcid |-> zenodo_orcid(self.orcid.val)]
        ELSE ret

\* [f(x) for x in xs]
RECURSIVE creators_of(_)
creators_of(xs) ==
    IF Len(xs) = 0 THEN <<>>
    ELSE <<as_zenodo_creator(Head(xs))>> \o creators_of(Tail(xs))

\* c in authors
is_in(c, as) == \E i \in 1..Len(as) : contributor_eq(c, as[i])

\* [c.as_zenodo_creator() for c in contributors if c not in authors]
RECURSIVE contributors_of(_, _)
contributors_of(cs, as) ==
    IF Len(cs) = 0 THEN <<>>
    ELSE (IF is_in(Head(cs), as) THEN <<>> ELSE <<as_zenodo_creator(Head(cs))>>)
         \o contributors_of(Tail(cs), as)

RECURSIVE parse(_)
parse(entries) ==
    IF Len(entries) = 0 THEN <<>>
    ELSE <<from_citation_author(Head(entries))>> \o parse(Tail(entries))

\* sync: the record of .zenodo.json with its two lists replaced, written
\* back or printed.
sync(in_place) ==
    LET authors == parse(citation_cff)
        contributors == parse(contributors_yaml)
        updated == [zenodo_file EXCEPT
                        !.creators = creators_of(authors),
                        !.contributors = contributors_of(contributors, authors)]
    IN  /\ zenodo' = Some(updated)
        /\ IF in_place
           THEN zenodo_file' = updated /\ UNCHANGED stdout
           ELSE stdout' = Some(updated) /\ UNCHANGED zenodo_file
        /\ UNCHANGED <<citation_cff, contributors_yaml>>

\* ------------------------------------------------------------ specifications

\* A process with no scope open and nothing logged.
NoHandlers == [l \in Loggers |-> <<>>]

ProcInit(d, e, hs) ==
    /\ cwd = d
    /\ environ = e
    /\ handlers = hs
    /\ stack = [t \in Tasks |-> <<>>]
    /\ exc = [t \in Tasks |-> FALSE]
    /\ last = [task |-> "t1", op |-> "init", frame |-> NoFrame,
               pre |-> [cwd |-> d, environ |-> e, handlers |-> hs],
               raising |-> FALSE]
    /\ log = <<>>

\* The record .zenodo.json holds before sync runs.
Zenodo0 == [title |-> "signac-flow",
            creators |-> <<[name |-> <<"o","l","d">>, affiliation |-> <<"X">>]>>,
            contributors |-> <<>>]

SyncInit(as, cs) ==
    /\ citation_cff = as
    /\ contributors_yaml = cs
    /\ zenodo = None
    /\ zenodo_file = Zenodo0
    /\ stdout = None

\* ---- Spec: one task, one scope at a time, every bounded input

Strs == StrUpTo(MaxLen)
Paths == StrUpTo(MaxPathLen)
Roots == {None} \cup {Some(p) : p \in Paths}

Init ==
    /\ \E d \in Dirs, e \in {None} \cup {Some(v) : v \in Strs} :
           ProcInit(d, e, NoHandlers)
    /\ SyncInit(<<>>, <<>>)

Enter(t, depth, paths, roots) ==
    /\ can_enter(t, depth)
    /\ \/ \E path \in paths : add_path_to_environment_pythonpath(t, path)
       \/ add_cwd_to_environment_pythonpath(t)
       \/ \E root \in roots : switch_to_directory(t, root)
       \/ \E root \in roots : switch_to_directory_fails(t, root)

Exit(t) ==
    /\ can_exit(t)
    /\ \/ path_scope_exit(t)
       \/ switch_exit(t)

\* The caller's code after a scope was left, or after it caught an exception,
\* runs on.
proceeds(t) ==
    /\ last.task = t /\ last.op \in {"exit", "enter_failed", "catch"}
    /\ ~exc[t]
    /\ last' = Step(t, "run", NoFrame)
    /\ UNCHANGED <<cwd, environ, handlers, stack, exc>>

\* The task is running code that may enter a scope: its last step did not
\* leave one.
running(t) == last.op \in {"init", "run", "enter"}

\* The steps of the one task; the other parts of the model stand still.
OneEnter == running("t1") /\ Enter("t1", 1, Paths, Roots) /\ UNCHANGED <<log, syncvars>>
OneExit == Exit("t1") /\ UNCHANGED <<log, syncvars>>
OneRaise == body_raises("t1") /\ UNCHANGED <<log, syncvars>>
OneCaught == caught("t1") /\ UNCHANGED <<log, syncvars>>
OneProceeds == proceeds("t1") /\ UNCHANGED <<log, syncvars>>

Next == OneEnter \/ OneExit \/ OneRaise \/ OneCaught \/ OneProceeds

Spec == Init /\ [][Next]_vars


\* ---- SpecNest: one task, scopes nested to MaxDepth, short inputs

NestStrs == StrUpTo(1)
NestRoots == {None} \cup {Some(p) : p \in NestStrs}

NestInit ==
    /\ \E d \in Dirs, e \in {None} \cup {Some(v) : v \in NestStrs} :
           ProcInit(d, e, NoHandlers)
    /\ SyncInit(<<>>, <<>>)

NestEnter == running("t1") /\ Enter("t1", MaxDepth, NestStrs, NestRoots)
             /\ UNCHANGED <<log, syncvars>>

NestNext == NestEnter \/ OneExit \/ OneRaise \/ OneCaught \/ OneProceeds

SpecNest == NestInit /\ [][NestNext]_vars

\* ---- SpecTasks: two tasks of one process, each entering and leaving one
\* switch_to_directory scope, in any interleaving

Event(t, op, branch) ==
    [task |-> t, op |-> op, branch |-> branch, before |-> cwd, after |-> cwd']

entered(t) == \E i \in 1..Len(log) : log[i].task = t

TasksInit ==
    /\ \E d \in Dirs : ProcInit(d, None, NoHandlers)
    /\ SyncInit(<<>>, <<>>)

TaskEnter ==
    \E t \in Tasks, root \in Roots :
        /\ ~entered(t)
        /\ switch_to_directory(t, root)
        /\ log' = Append(log, Event(t, "enter", IF root.some THEN "switched" ELSE "noop"))
        /\ UNCHANGED syncvars

TaskEnterFails ==
    \E t \in Tasks, root \in Roots :
        /\ ~entered(t)
        /\ switch_to_directory_fails(t, root)
        /\ log' = Append(log, Event(t, "enter_failed", "failed"))
        /\ UNCHANGED syncvars

TaskRaise == \E t \in Tasks : body_raises(t) /\ UNCHANGED <<log, syncvars>>

TaskExit ==
    \E t \in Tasks :
        /\ can_exit(t)
        /\ switch_exit(t)
        /\ log' = Append(log, Event(t, "exit", top(t).branch))
        /\ UNCHANGED syncvars

TasksNext == TaskEnter \/ TaskEnterFails \/ TaskRaise \/ TaskExit

SpecTasks == TasksInit /\ [][TasksNext]_vars

\* ---- SpecLog: one task, redirect_log scopes nested to MaxDepth

\* The handlers a logger holds before any scope: k distinct objects.
PreHandler(n) == [id |-> n, baseFilename |-> <<>>, formatter |-> "stream"]
PreHandlers == {[i \in 1..k |-> PreHandler(i)] : k \in 0..MaxHandlers}

LogInit ==
    /\ \E hs \in [Loggers -> PreHandlers] : ProcInit(<<"/">>, None, hs)
    /\ SyncInit(<<>>, <<>>)

LoggerArgs == {None, Some("app")}
FormatterArgs == {None} \cup {Some(f) : f \in Formatters}

LogEnter ==
    /\ running("t1") /\ can_enter("t1", MaxDepth)
    /\ \E job \in Jobs, filename \in Filenames,
          formatter \in FormatterArgs, logger \in LoggerArgs :
           redirect_log("t1", job, filename, formatter, logger)
    /\ UNCHANGED <<log, syncvars>>

LogEnterFails ==
    /\ running("t1") /\ can_enter("t1", MaxDepth)
    /\ \E job \in Jobs, filename \in Filenames,
          formatter \in FormatterArgs, logger \in LoggerArgs :
           redirect_log_fails("t1", job, filename, formatter, logger)
    /\ UNCHANGED <<log, syncvars>>

LogExit == can_exit("t1") /\ redirect_log_exit("t1") /\ UNCHANGED <<log, syncvars>>

LogNext == LogEnter \/ LogEnterFails \/ LogExit \/ OneRaise \/ OneCaught \/ OneProceeds

SpecLog == LogInit /\ [][LogNext]_vars

\* ---- SpecSync: sync on every bounded pair of citation files

Str_Doe == <<"D", "o", "e">>
Str_Roe == <<"R", "o", "e">>
Str_Jane == <<"J", "a", "n", "e">>
Str_Rick == <<"R", "i", "c", "k">>

Person(family, given, affiliation) ==
    ("family-names" :> family) @@ ("given-names" :> given) @@ ("affiliation" :> affiliation)

WithOrcid(person, suffix) == person @@ ("orcid" :> (OrcidPrefix \o suffix))

People ==
    { Person(Str_Doe, Str_Jane, <<"X">>),
      WithOrcid(Person(Str_Doe, Str_Jane, <<"X">>), <<"0", "1">>),
      WithOrcid(Person(Str_Doe, Str_Jane, <<"X">>), <<"o", "1">>),
      Person(Str_Doe, Str_Jane, <<"Y">>),
      WithOrcid(Person(Str_Roe, Str_Rick, <<"Y">>), <<"0", "-", "d">>) }

ListsUpTo(S, n) == UNION {[1..k -> S] : k \in 0..n}

SyncSpecInit ==
    /\ ProcInit(<<"/">>, None, NoHandlers)
    /\ \E as \in ListsUpTo(People, MaxAuthors), cs \in ListsUpTo(People, MaxContributors) :
           SyncInit(as, cs)

SyncInPlace == sync(TRUE) /\ UNCHANGED <<procvars, log>>
SyncPrint == sync(FALSE) /\ UNCHANGED <<procvars, log>>

SyncNext == SyncInPlace \/ SyncPrint

SpecSync == SyncSpecInit /\ [][SyncNext]_vars


\* ------------------------------------------------------------ claims

PathKinds == {"add_path", "add_cwd"}

\* The colon-delimited entries of a PYTHONPATH value.
entries(v) == LET parts == split(v, ":") IN {parts[i] : i \in 1..Len(parts)}

\* The canonical form of the path a path scope was called with.
canonical(f) == realpath(f.entry.cwd, f.arg)

\* C1: after a path scope exits, normally or because the body failed,
\* PYTHONPATH is what it was before the scope was entered: unset if it was
\* unset, and exactly V if it was set to V, the empty string included.
C1_PythonpathRestored ==
    (last.op = "exit" /\ last.frame.kind \in PathKinds)
        => environ = last.frame.entry.environ

\* C2: after a switch_to_directory scope exits (the body returned or
\* raised) or its chdir raised, the working directory is the one before the
\* scope; with root None no step of the scope changes it.
C2_CwdRestored ==
    /\ (last.op \in {"exit", "enter_failed"} /\ last.frame.kind = "switch")
        => cwd = last.frame.entry.cwd
    /\ (last.op \in {"enter", "exit"} /\ last.frame.kind = "switch"
            /\ ~last.frame.arg.some)
        => cwd = last.pre.cwd
    /\ \A i \in 1..Len(stack["t1"]) :
        (stack["t1"][i].kind = "switch" /\ ~stack["t1"][i].arg.some)
            => cwd = stack["t1"][i].entry.cwd

\* C2 witness: a scope that had changed the directory exited while the
\* body's exception propagated.
C2_Witness ==
    /\ last.op = "exit" /\ last.frame.kind = "switch"
    /\ last.frame.arg.some
    /\ last.pre.cwd # last.frame.entry.cwd
    /\ last.raising
    /\ cwd = last.frame.entry.cwd

\* C3: when PYTHONPATH is set and one of its colon-delimited entries is an
\* absolute path whose canonical form is that of path, the value of
\* PYTHONPATH while the body runs and after exit is the value before entry.
C3_NoMutationWhenPresent ==
    LET f == last.frame IN
    (/\ last.op \in {"enter", "exit"}
     /\ f.kind \in PathKinds
     /\ f.entry.environ.some
     /\ \E e \in entries(f.entry.environ.val) :
            isabs(e) /\ realpath(f.entry.cwd, e) = canonical(f))
        => environ = f.entry.environ

\* C4: while the body of a path scope runs, the canonical form of path is
\* one of the colon-delimited entries of PYTHONPATH: the first one when the
\* scope prepended it, the only one when the variable was unset. Stated
\* for the paths whose canonical form holds no colon: one that does cannot
\* be an entry of any value.
C4_PathIsEntryWhileBodyRuns ==
    \A i \in 1..Len(stack["t1"]) :
        LET f == stack["t1"][i] IN
        (f.kind \in PathKinds /\ find(canonical(f), ":", 1) = 0) =>
            /\ environ.some
            /\ canonical(f) \in entries(environ.val)
            /\ f.branch = "prepended" => split(environ.val, ":")[1] = canonical(f)
            /\ ~f.entry.environ.some => split(environ.val, ":") = <<canonical(f)>>

\* C5: every exit of a nested scope leaves the working directory and
\* PYTHONPATH as they were just before that scope was entered; the scope
\* that exits is the last one entered; after the outermost exit both are as
\* before the outermost entry.
C5_NestedExitRestores ==
    last.op = "exit" =>
        /\ cwd = last.frame.entry.cwd
        /\ environ = last.frame.entry.environ
        /\ last.frame.depth = Len(stack[last.task]) + 1

\* C6: two tasks whose switch_to_directory scopes interleave without
\* nesting (task 1 enters, task 2 enters, task 1 exits, task 2 exits) end
\* in the directory task 1 had switched to, which task 2 saved, and not in
\* the directory that was current before either scope was entered.
Interleaved ==
    /\ Len(log) = 4
    /\ log[1].task = "t1" /\ log[1].op = "enter"
    /\ log[2].task = "t2" /\ log[2].op = "enter"
    /\ log[3].task = "t1" /\ log[3].op = "exit"
    /\ log[4].task = "t2" /\ log[4].op = "exit"

C6_InterleavedExitsCorrupt ==
    (/\ Interleaved
     /\ log[1].after # log[1].before
     /\ log[2].branch = "switched")
        => /\ cwd = log[1].after
           /\ cwd # log[1].before

\* C6 witness: both scopes have exited and the working directory is not
\* the one before either was entered.
C6_Witness ==
    /\ Interleaved
    /\ Len(stack["t1"]) = 0 /\ Len(stack["t2"]) = 0
    /\ cwd # log[1].before

\* The four fields of two Contributors agree.
same_fields(a, b) ==
    /\ a.last_names = b.last_names
    /\ a.first_names = b.first_names
    /\ a.affiliation = b.affiliation
    /\ a.orcid = b.orcid

\* The positions of the contributor list that no author equals.
kept_positions(A, B) ==
    {i \in 1..Len(B) : \A j \in 1..Len(A) : ~same_fields(B[i], A[j])}

\* C7: 'contributors' is the image, in order, of exactly the entries of the
\* contributor list that differ from every author in at least one of the
\* four fields; 'creators' is the image of the author list in its order.
C7_ContributorsMinusAuthors ==
    zenodo.some =>
        LET A == parse(citation_cff)
            B == parse(contributors_yaml)
            kept == kept_positions(A, B)
            out == zenodo.val.contributors
        IN  /\ Len(out) = Cardinality(kept)
            /\ \A i \in kept :
                   out[Cardinality({k \in kept : k <= i})] = as_zenodo_creator(B[i])
            /\ Len(zenodo.val.creators) = Len(A)
            /\ \A j \in 1..Len(A) : zenodo.val.creators[j] = as_zenodo_creator(A[j])

\* C7 witness: sync ran on lists where one contributor equals an author
\* and is excluded, and another differs from an author in the orcid alone
\* and is kept.
C7_Witness ==
    /\ zenodo.some
    /\ LET A == parse(citation_cff)
           B == parse(contributors_yaml)
       IN  /\ \E i \in 1..Len(B), j \in 1..Len(A) : same_fields(B[i], A[j])
           /\ \E i \in kept_positions(A, B), j \in 1..Len(A) :
                  /\ B[i].last_names = A[j].last_names
                  /\ B[i].first_names = A[j].first_names
                  /\ B[i].affiliation = A[j].affiliation
                  /\ B[i].orcid # A[j].orcid
           /\ Len(zenodo.val.contributors) = 1

\* A string starts with the ORCID URL prefix.
has_prefix(s) ==
    Len(s) >= Len(OrcidPrefix) /\ SubSeq(s, 1, Len(OrcidPrefix)) = OrcidPrefix

\* C8: for an identifier 'https://orcid.org/' followed by S, the 'orcid'
\* emitted is exactly S, whatever characters S begins with.
C8_OrcidSuffixExact ==
    zenodo.some =>
        \A j \in 1..Len(citation_cff) :
            LET a == from_citation_author(citation_cff[j]) IN
            (a.orcid.some /\ has_prefix(a.orcid.val)) =>
                zenodo.val.creators[j].orcid
                    = SubSeq(a.orcid.val, Len(OrcidPrefix) + 1, Len(a.orcid.val))

\* C9: the file handler redirect_log attaches is opened on the job's path
\* of the filename given, for every filename.
C9_HandlerOnGivenFile ==
    (last.op = "enter" /\ last.frame.kind = "redirect_log")
        => last.frame.filehandler.baseFilename
               = realpath(last.pre.cwd, fn(last.frame.job, last.frame.filename))

\* C10: while the body runs the logger holds the handlers it held before
\* plus the one new file handler; after exit, the body having returned or
\* raised, every logger holds exactly the handlers it held before entry, in
\* their order, and an exception of the body is still propagating.
C10_HandlerAddedThenRemoved ==
    LET f == last.frame IN
    /\ (last.op = "enter" /\ f.kind = "redirect_log") =>
        /\ handlers[f.logger] = Append(last.pre.handlers[f.logger], f.filehandler)
        /\ \A i \in 1..Len(last.pre.handlers[f.logger]) :
               last.pre.handlers[f.logger][i] # f.filehandler
        /\ \A l \in Loggers \ {f.logger} : handlers[l] = last.pre.handlers[l]
    /\ (last.op = "exit" /\ f.kind = "redirect_log") =>
        /\ handlers = f.entry.handlers
        /\ exc[last.task] = last.raising

\* C10 witness: a scope on a logger that held handlers before exited while
\* the body's exception propagated.
C10_Witness ==
    /\ last.op = "exit" /\ last.frame.kind = "redirect_log"
    /\ Len(last.frame.entry.handlers[last.frame.logger]) > 0
    /\ last.raising /\ exc[last.task]
    /\ handlers = last.frame.entry.handlers

====
